---- MODULE Spec2Model ----
(***************************************************************************)
(* CodeSage dependency-graph builder (backend/app/graph_builder.py).       *)
(*                                                                         *)
(* build_graph is modelled as a state machine over one filesystem          *)
(* snapshot: the README step, one step per directory that os.walk yields,  *)
(* one step per import record and one step per base-class / call           *)
(* reference.  The graph is a networkx MultiDiGraph: a map from node key   *)
(* to attributes and a bag of (source, target, type) edges.                *)
(*                                                                         *)
(* Strings are sequences of one-character strings, so that split,          *)
(* startswith, endswith, dirname and the f-string keys are computed        *)
(* character by character, as the Python code computes them.               *)
(***************************************************************************)
EXTENDS Integers, Sequences, FiniteSets, Bags, TLC

\* ------------------------------------------------------------------------
\* String helpers (Python str methods and os.path on POSIX)
\* ------------------------------------------------------------------------
SEP == "/"

Range(s) == {s[i] : i \in 1..Len(s)}

Last(s) == s[Len(s)]

Front(s) == SubSeq(s, 1, Len(s) - 1)

\* s.startswith(p)
StartsWith(s, p) == Len(p) <= Len(s) /\ SubSeq(s, 1, Len(p)) = p

\* s.endswith(p)
EndsWith(s, p) ==
    Len(p) <= Len(s) /\ SubSeq(s, Len(s) - Len(p) + 1, Len(s)) = p

\* s.split(c): the pieces between the occurrences of the character c
RECURSIVE SplitFrom(_, _, _, _)
SplitFrom(s, c, i, cur) ==
    IF i > Len(s) THEN <<cur>>
    ELSE IF s[i] = c THEN <<cur>> \o SplitFrom(s, c, i + 1, <<>>)
    ELSE SplitFrom(s, c, i + 1, Append(cur, s[i]))

Split(s, c) == SplitFrom(s, c, 1, <<>>)

\* c.join(parts)
RECURSIVE JoinWith(_, _)
JoinWith(parts, c) ==
    IF parts = <<>> THEN <<>>
    ELSE IF Len(parts) = 1 THEN parts[1]
    ELSE parts[1] \o <<c>> \o JoinWith(Tail(parts), c)

\* the index of the last occurrence of c in s, 0 when there is none
RECURSIVE RFind(_, _, _)
RFind(s, c, i) ==
    IF i = 0 THEN 0 ELSE IF s[i] = c THEN i ELSE RFind(s, c, i - 1)

\* s.rstrip(c)
RECURSIVE RStrip(_, _)
RStrip(s, c) ==
    IF s # <<>> /\ Last(s) = c THEN RStrip(Front(s), c) ELSE s

\* os.path.dirname
Dirname(p) ==
    LET i == RFind(p, SEP, Len(p))
        head == SubSeq(p, 1, i)
    IN  IF head # <<>> /\ RStrip(head, SEP) # <<>> THEN RStrip(head, SEP)
        ELSE head

\* os.path.join(a, b) for a relative b
PathJoin(a, b) ==
    IF a = <<>> \/ Last(a) = SEP THEN a \o b ELSE a \o <<SEP>> \o b

\* os.path.join(a, *parts)
RECURSIVE PathJoinAll(_, _)
PathJoinAll(a, parts) ==
    IF parts = <<>> THEN a
    ELSE PathJoinAll(PathJoin(a, parts[1]), Tail(parts))

\* the non-empty components of an absolute path
Components(p) == SelectSeq(Split(p, SEP), LAMBDA x : x # <<>>)

\* the length of the longest common prefix of two component lists
RECURSIVE CommonLen(_, _)
CommonLen(a, b) ==
    IF a = <<>> \/ b = <<>> \/ a[1] # b[1] THEN 0
    ELSE 1 + CommonLen(Tail(a), Tail(b))

\* os.path.relpath(path, start) for absolute arguments
RelPath(path, start) ==
    LET sl == Components(start)
        pl == Components(path)
        i == CommonLen(sl, pl)
        ups == [k \in 1..(Len(sl) - i) |-> <<".", ".">>]
        rel == ups \o SubSeq(pl, i + 1, Len(pl))
    IN  IF rel = <<>> THEN <<".">> ELSE JoinWith(rel, SEP)

\* ------------------------------------------------------------------------
\* Public constants of graph_builder.py
\* ------------------------------------------------------------------------
NODE_TYPE_DIRECTORY == "directory"
NODE_TYPE_FILE == "file"
NODE_TYPE_CLASS == "class"
NODE_TYPE_FUNCTION == "function"
NODE_TYPE_GENERIC == "generic_file"
NODE_TYPE_README == "readme"
\* the type of a node that add_edge created: it has no "type" attribute
NO_TYPE == "none"

EDGE_TYPE_CONTAINS == "contains"
EDGE_TYPE_INHERITS == "inherits"
EDGE_TYPE_INVOKES == "invokes"
EDGE_TYPE_IMPORTS == "imports"

SKIP_DIRS ==
    { <<".", "g", "i", "t">>,
      <<".", "g", "i", "t", "h", "u", "b">>,
      <<".", "m", "y", "p", "y", "_", "c", "a", "c", "h", "e">>,
      <<"_", "_", "p", "y", "c", "a", "c", "h", "e", "_", "_">>,
      <<".", "i", "d", "e", "a">>,
      <<"v", "e", "n", "v">>,
      <<"e", "n", "v">>,
      <<"a", "s", "s", "e", "t", "s">>,
      <<"e", "v", "a", "l", "u", "a", "t", "i", "o", "n">>,
      <<"p", "l", "o", "t", "s">>,
      <<"r", "e", "p", "o", "_", "i", "n", "d", "e", "x">>,
      <<"s", "c", "r", "i", "p", "t", "s">>,
      <<"v", "e", "n">> }

GENERIC_FILE_SUFFIXES ==
    { <<".", "j", "s">>, <<".", "j", "s", "x">>, <<".", "t", "s">>,
      <<".", "t", "s", "x">>, <<".", "m", "d">>, <<".", "t", "x", "t">>,
      <<".", "i", "p", "y", "n", "b">>, <<".", "j", "s", "o", "n">>,
      <<".", "y", "a", "m", "l">>, <<".", "y", "m", "l">>,
      <<".", "c", "f", "g">>, <<".", "t", "o", "m", "l">> }

PY_SUFFIX == <<".", "p", "y">>

readme_candidates ==
    << <<"R", "E", "A", "D", "M", "E", ".", "m", "d">>,
       <<"r", "e", "a", "d", "m", "e", ".", "m", "d">>,
       <<"R", "E", "A", "D", "M", "E", ".", "t", "x", "t">>,
       <<"r", "e", "a", "d", "m", "e", ".", "t", "x", "t">>,
       <<"R", "E", "A", "D", "M", "E">> >>

ROOT_KEY == <<"/">>
README_KEY == <<"_", "_", "R", "E", "A", "D", "M", "E", "_", "_">>
INIT_NAME == <<"_", "_", "i", "n", "i", "t", "_", "_">>

\* str.lower() on the letters that file names of the model use
LowerChar(c) ==
    CASE c = "A" -> "a" [] c = "B" -> "b" [] c = "D" -> "d" [] c = "E" -> "e"
      [] c = "M" -> "m" [] c = "N" -> "n" [] c = "R" -> "r" [] c = "T" -> "t"
      [] c = "X" -> "x" [] OTHER -> c

Lower(s) == [i \in 1..Len(s) |-> LowerChar(s[i])]

\* the same without the split: the whole path compared with the names
_is_skip_dir_whole_path(path_part) == path_part \in SKIP_DIRS

\* _is_skip_dir: some SKIP_DIRS name is a component of the path
_is_skip_dir(path_part) ==
    \E skip \in SKIP_DIRS : skip \in Range(Split(path_part, SEP))

\* ------------------------------------------------------------------------
\* Syntax trees.  A tree is a sequence of nodes in source order; node i's
\* parent is an earlier node or 0 (the Module).  exprs holds the base-class
\* expressions of a ClassDef, the callee of a Call and the imported names
\* of an ImportFrom; an expression is [form, id] with form Name, Attribute
\* (id is the trailing attribute) or Other (a call, a subscript, ...).
\* ------------------------------------------------------------------------
DefKinds == {"ClassDef", "FunctionDef", "AsyncFunctionDef"}

\* the children of node i (0: of the Module), in source order
Children(t, i) ==
    SelectSeq([j \in 1..Len(t) |-> j], LAMBDA j : t[j].parent = i)

\* _CodeAnalyzer: visit_ClassDef, visit_FunctionDef, visit_AsyncFunctionDef
\* and generic_visit.  ns and ts are _name_stack and _type_stack; a record's
\* src is the declaration it was made from (its code, start and end lines).
SymbolRecord(t, i, ns, type) ==
    [name |-> JoinWith(Append(ns, t[i].name), "."), type |-> type, src |-> i]

RECURSIVE Visit(_, _, _, _)
RECURSIVE GenericVisit(_, _, _, _)

visit_ClassDef(t, i, ns, ts) ==
    <<SymbolRecord(t, i, ns, NODE_TYPE_CLASS)>>
        \o GenericVisit(t, Children(t, i), Append(ns, t[i].name),
                        Append(ts, NODE_TYPE_CLASS))

\* a changed _visit_func: the function's name is not pushed on _name_stack
_visit_func_keeps_stack(t, i, ns, ts) ==
    <<SymbolRecord(t, i, ns, NODE_TYPE_FUNCTION)>>
        \o GenericVisit(t, Children(t, i), ns, Append(ts, NODE_TYPE_FUNCTION))

_visit_func(t, i, ns, ts) ==
    <<SymbolRecord(t, i, ns, NODE_TYPE_FUNCTION)>>
        \o GenericVisit(t, Children(t, i), Append(ns, t[i].name),
                        Append(ts, NODE_TYPE_FUNCTION))

visit_FunctionDef(t, i, ns, ts) ==
    IF ts # <<>> /\ Last(ts) = NODE_TYPE_CLASS /\ t[i].name = INIT_NAME
    THEN <<>>
    ELSE _visit_func(t, i, ns, ts)

visit_AsyncFunctionDef(t, i, ns, ts) == _visit_func(t, i, ns, ts)

Visit(t, i, ns, ts) ==
    CASE t[i].kind = "ClassDef" -> visit_ClassDef(t, i, ns, ts)
      [] t[i].kind = "FunctionDef" -> visit_FunctionDef(t, i, ns, ts)
      [] t[i].kind = "AsyncFunctionDef" -> visit_AsyncFunctionDef(t, i, ns, ts)
      [] OTHER -> GenericVisit(t, Children(t, i), ns, ts)

GenericVisit(t, kids, ns, ts) ==
    IF kids = <<>> THEN <<>>
    ELSE Visit(t, kids[1], ns, ts) \o GenericVisit(t, Tail(kids), ns, ts)

\* _read_tree: None (here <<>> with ok FALSE) for undecodable or invalid
\* source.  A file content is [status, ast], status one of ok, syntax,
\* undecodable, unreadable.
_read_tree_ok(content) == content.status = "ok"

\* _analyze_file
_analyze_file(content) ==
    IF ~_read_tree_ok(content) THEN <<>>
    ELSE GenericVisit(content.ast, Children(content.ast, 0), <<>>, <<>>)

\* ------------------------------------------------------------------------
\* networkx.MultiDiGraph: nodes maps a key to its attributes, edges is the
\* bag of (src, dst, type) edges
\* ------------------------------------------------------------------------
EmptyGraph == [nodes |-> [k \in {} |-> 0], edges |-> EmptyBag]

has_node(g, k) == k \in DOMAIN g.nodes

\* add_node(k, type=...): creates the node or updates its type
add_node(g, k, type) ==
    IF has_node(g, k)
    THEN [g EXCEPT !.nodes = [@ EXCEPT ![k].type = type]]
    ELSE [g EXCEPT !.nodes = (k :> [type |-> type, src |-> 0]) @@ @]

\* add_node(k, type=..., code=..., start_line=..., end_line=...)
add_symbol_node(g, k, type, src) ==
    [g EXCEPT !.nodes = (k :> [type |-> type, src |-> src]) @@ @]

\* a node that add_edge has to create carries no attribute
touch_node(g, k) ==
    IF has_node(g, k) THEN g
    ELSE [g EXCEPT !.nodes = (k :> [type |-> NO_TYPE, src |-> 0]) @@ @]

\* add_edge(u, v, type=...): creates missing endpoints, never deduplicates
add_edge(g, u, v, type) ==
    LET g2 == touch_node(touch_node(g, u), v)
    IN  [g2 EXCEPT !.edges =
            @ (+) SetToBag({[src |-> u, dst |-> v, type |-> type]})]

\* remove_node(k): the node and every edge at it (k is a node)
remove_node(g, k) ==
    LET keep == {e \in DOMAIN g.edges : e.src # k /\ e.dst # k}
    IN  [nodes |-> [x \in DOMAIN g.nodes \ {k} |-> g.nodes[x]],
         edges |-> [e \in keep |-> g.edges[e]]]

\* ------------------------------------------------------------------------
\* State
\* ------------------------------------------------------------------------
VARIABLES
    repo,          \* the filesystem snapshot: [path, dirs, files]
    pc,            \* readme, walk, imports, refs, done or raised
    G,             \* the graph under construction
    file_nodes,    \* the keys of the dict file_nodes, in insertion order
    dir_stack,     \* directories entered and not yet popped
    dir_included,  \* one flag per entry of dir_stack
    walk_todo,     \* the directories os.walk has still to yield, in order
    work,          \* the import records / references still to resolve
    db,            \* the Neo4j database: CodeNode nodes and RELATION edges
    summary,       \* the summary attributes annotate_graph_async has set
    pickles,       \* the files of indexed_graphs/, by sanitized repository id
    vectors,       \* the repository ids held in the vector store
    response       \* what the last request or query returned

\* the state of the stages that follow build_graph
appvars == <<summary, pickles, vectors, response>>

\* no node and no edge carries a summary
NoSummaries == [nodes |-> [k \in {} |-> ""], edges |-> {}]

NO_RESPONSE == [kind |-> "none"]

vars ==
    <<repo, pc, G, file_nodes, dir_stack, dir_included, walk_todo, work, db,
      summary, pickles, vectors, response>>

\* ------------------------------------------------------------------------
\* The filesystem snapshot.  repo.path is repo_path (an absolute path),
\* repo.dirs the directories as lists of names below it (<<>> is repo_path
\* itself), repo.files maps a file (the list of names down to it) to its
\* content.
\* ------------------------------------------------------------------------
AbsPath(names) == PathJoinAll(repo.path, names)

Subdirs(d) ==
    {e \in repo.dirs : Len(e) = Len(d) + 1 /\ SubSeq(e, 1, Len(d)) = d}

FilesIn(d) == {f \in DOMAIN repo.files : Front(f) = d}

\* os.path.isfile
isfile(path) == \E f \in DOMAIN repo.files : AbsPath(f) = path

FileAt(path) == CHOOSE f \in DOMAIN repo.files : AbsPath(f) = path

\* every order in which a directory listing can come
Orders(S) ==
    {o \in [1..Cardinality(S) -> S] : \A i, j \in DOMAIN o : i # j => o[i] # o[j]}

\* ------------------------------------------------------------------------
\* build_graph, step 0: the README node
\* ------------------------------------------------------------------------
\* the first candidate that is a file of repo_path, <<>> when none is
RECURSIVE FirstReadme(_)
FirstReadme(cands) ==
    IF cands = <<>> THEN <<>>
    ELSE IF isfile(PathJoin(repo.path, cands[1])) THEN cands[1]
    ELSE FirstReadme(Tail(cands))

ReadmeGraph(g) ==
    IF FirstReadme(readme_candidates) = <<>> THEN g
    ELSE add_edge(add_node(g, README_KEY, NODE_TYPE_README),
                  ROOT_KEY, README_KEY, EDGE_TYPE_CONTAINS)

\* ------------------------------------------------------------------------
\* build_graph, step 1: one iteration of the os.walk loop
\* ------------------------------------------------------------------------
\* nid = f"{rel_path}:{meta['name']}"
SymbolNid(rel_path, name) == rel_path \o <<":">> \o name

\* the owner of a symbol: the enclosing symbol when the dotted name has a
\* dot, the file otherwise
ParentNid(rel_path, name) ==
    IF "." \in Range(name)
    THEN SymbolNid(rel_path, JoinWith(Front(Split(name, ".")), "."))
    ELSE rel_path

\* for meta in _analyze_file(abs_path): node and contains edge
RECURSIVE AddSymbols(_, _, _)
AddSymbols(g, rel_path, metas) ==
    IF metas = <<>> THEN g
    ELSE LET meta == metas[1]
             nid == SymbolNid(rel_path, meta.name)
             g1 == add_symbol_node(g, nid, meta.type, meta.src)
             g2 == add_edge(g1, ParentNid(rel_path, meta.name), nid,
                            EDGE_TYPE_CONTAINS)
         IN  AddSymbols(g2, rel_path, Tail(metas))

\* open(abs_path, "r", encoding="utf-8").read() raises for a file that
\* cannot be opened or decoded; nothing in build_graph catches it
ReadRaises(content) == content.status \in {"unreadable", "undecodable"}

IsGeneric(fname) ==
    \E suf \in GENERIC_FILE_SUFFIXES : EndsWith(Lower(fname), suf)

\* the body of "for fname in files" for one file; st is [g, fn, raised]
ScanFile(st, d, root, rel_dir, fname) ==
    LET abs_path == PathJoin(root, fname)
        rel_path == RelPath(abs_path, repo.path)
        content == repo.files[Append(d, fname)]
    IN  IF st.raised THEN st
        ELSE IF EndsWith(fname, PY_SUFFIX)
        THEN IF ReadRaises(content) THEN [st EXCEPT !.raised = TRUE]
             ELSE LET g1 == add_node(st.g, rel_path, NODE_TYPE_FILE)
                      g2 == add_edge(g1, rel_dir, rel_path, EDGE_TYPE_CONTAINS)
                      g3 == AddSymbols(g2, rel_path, _analyze_file(content))
                  IN  [g |-> g3,
                       fn |-> IF rel_path \in Range(st.fn) THEN st.fn
                              ELSE Append(st.fn, rel_path),
                       raised |-> FALSE]
        ELSE IF IsGeneric(fname)
        THEN [st EXCEPT !.g =
                 add_edge(add_node(st.g, rel_path, NODE_TYPE_GENERIC),
                          rel_dir, rel_path, EDGE_TYPE_CONTAINS)]
        ELSE st

RECURSIVE ScanFiles(_, _, _, _, _)
ScanFiles(st, d, root, rel_dir, fnames) ==
    IF fnames = <<>> THEN st
    ELSE ScanFiles(ScanFile(st, d, root, rel_dir, Last(fnames[1])),
                   d, root, rel_dir, Tail(fnames))

\* register directory node
RegisterDir(g, rel_dir) ==
    IF rel_dir # ROOT_KEY /\ ~has_node(g, rel_dir)
    THEN LET parent == IF Dirname(rel_dir) = <<>> THEN ROOT_KEY
                       ELSE Dirname(rel_dir)
         IN  add_edge(add_node(g, rel_dir, NODE_TYPE_DIRECTORY),
                      parent, rel_dir, EDGE_TYPE_CONTAINS)
    ELSE g

\* pop dir stack on ascent; st is [g, stack, included, raised].
\* remove_node raises NetworkXError for a key that is no node.
RECURSIVE PopDirs(_, _)
PopDirs(st, rel_dir) ==
    IF st.stack # <<>> /\ ~StartsWith(rel_dir, Last(st.stack)) /\ ~st.raised
    THEN LET top == Last(st.stack)
             drop == ~Last(st.included)
         IN  PopDirs([g |-> IF drop /\ has_node(st.g, top)
                            THEN remove_node(st.g, top) ELSE st.g,
                      stack |-> Front(st.stack),
                      included |-> Front(st.included),
                      raised |-> drop /\ ~has_node(st.g, top)],
                     rel_dir)
    ELSE st

\* rel_dir = os.path.relpath(root, repo_path) or "/"
RelDir(root) ==
    LET r == RelPath(root, repo.path) IN IF r = <<>> THEN ROOT_KEY ELSE r

\* ------------------------------------------------------------------------
\* ast.walk: breadth first, the starting node included (0 is the Module)
\* ------------------------------------------------------------------------
RECURSIVE AstWalkQ(_, _)
AstWalkQ(t, queue) ==
    IF queue = <<>> THEN <<>>
    ELSE <<queue[1]>> \o AstWalkQ(t, Tail(queue) \o Children(t, queue[1]))

AstWalk(t, i) == AstWalkQ(t, <<i>>)

\* the tree _read_tree returns for the file with key rel_path
ContentOf(rel_path) == repo.files[FileAt(PathJoin(repo.path, rel_path))]

\* ------------------------------------------------------------------------
\* build_graph, step 2: imports
\* ------------------------------------------------------------------------
\* the same with one segment too few removed: the file name stays
FromModule_keeps_file(rel_path, node) ==
    IF node.level > 0
    THEN LET segs == Split(rel_path, SEP)
             parts == SubSeq(segs, 1, Len(segs) - (node.level - 1))
         IN  JoinWith(parts \o (IF node.name = <<>> THEN <<>>
                                ELSE <<node.name>>), ".")
    ELSE node.name

\* the module a from-import names, relative imports anchored at the
\* importing file's own path with its last `level` segments removed
FromModule(rel_path, node) ==
    IF node.level > 0
    THEN LET segs == Split(rel_path, SEP)
             parts == SubSeq(segs, 1, Len(segs) - node.level)
         IN  JoinWith(parts \o (IF node.name = <<>> THEN <<>>
                                ELSE <<node.name>>), ".")
    ELSE node.name

\* the records _find_imports returns for one node of the tree, each turned
\* into the items the step-2 loop handles one by one: a plain import, a
\* wildcard from-import, or one entity of a named from-import
ImportItemsOfNode(rel_path, node) ==
    IF node.kind = "Import"
    THEN [k \in 1..Len(node.exprs) |->
            [kind |-> "import", file |-> rel_path,
             module |-> node.exprs[k].id, ent |-> <<>>]]
    ELSE IF node.kind = "ImportFrom"
    THEN IF Len(node.exprs) = 1 /\ node.exprs[1].id = <<"*">>
         THEN << [kind |-> "star", file |-> rel_path,
                  module |-> FromModule(rel_path, node), ent |-> <<>>] >>
         ELSE [k \in 1..Len(node.exprs) |->
                 [kind |-> "entity", file |-> rel_path,
                  module |-> FromModule(rel_path, node),
                  ent |-> node.exprs[k].id]]
    ELSE <<>>

RECURSIVE ImportItemsOfNodes(_, _, _)
ImportItemsOfNodes(rel_path, t, idxs) ==
    IF idxs = <<>> THEN <<>>
    ELSE ImportItemsOfNode(rel_path, t[idxs[1]])
            \o ImportItemsOfNodes(rel_path, t, Tail(idxs))

\* _find_imports(abs_path, repo_path)
_find_imports(rel_path) ==
    LET content == ContentOf(rel_path)
    IN  IF ~_read_tree_ok(content) THEN <<>>
        ELSE ImportItemsOfNodes(rel_path, content.ast,
                                Tail(AstWalk(content.ast, 0)))

RECURSIVE ImportItems(_)
ImportItems(fn) ==
    IF fn = <<>> THEN <<>>
    ELSE _find_imports(fn[1]) \o ImportItems(Tail(fn))

\* _resolve_module: the path of module.py or module/__init__.py, <<>> (None)
\* when neither is a file
_resolve_module(module) ==
    LET parts == Split(module, ".")
        candidate == PathJoinAll(repo.path, parts) \o PY_SUFFIX
        init_candidate ==
            PathJoin(PathJoinAll(repo.path, parts), INIT_NAME \o PY_SUFFIX)
    IN  IF isfile(candidate) THEN candidate
        ELSE IF isfile(init_candidate) THEN init_candidate
        ELSE <<>>

\* the same without the test that the file is a node
ImportFileEdge_unchecked(g, rel_path, module) ==
    LET tgt_path == _resolve_module(module)
        tgt_rel == RelPath(tgt_path, repo.path)
    IN  IF tgt_path # <<>>
        THEN add_edge(g, rel_path, tgt_rel, EDGE_TYPE_IMPORTS)
        ELSE g

\* an imports edge to the file a module resolves to, if that file is a node
ImportFileEdge(g, rel_path, module) ==
    LET tgt_path == _resolve_module(module)
        tgt_rel == RelPath(tgt_path, repo.path)
    IN  IF tgt_path # <<>> /\ has_node(g, tgt_rel)
        THEN add_edge(g, rel_path, tgt_rel, EDGE_TYPE_IMPORTS)
        ELSE g

\* the same without the first attempt, module.entity as a module
ImportEntityEdge_symbol_only(g, rel_path, module, ent) ==
    LET maybe_mod == _resolve_module(module)
        node_id == SymbolNid(RelPath(maybe_mod, repo.path), ent)
    IN  IF maybe_mod # <<>> /\ has_node(g, node_id)
        THEN add_edge(g, rel_path, node_id, EDGE_TYPE_IMPORTS)
        ELSE g

\* one entity of "from module import entity"
ImportEntityEdge(g, rel_path, module, ent) ==
    LET ent_path == _resolve_module(module \o <<".">> \o ent)
        maybe_mod == _resolve_module(module)
        node_id == SymbolNid(RelPath(maybe_mod, repo.path), ent)
    IN  IF ent_path # <<>>
        THEN ImportFileEdge(g, rel_path, module \o <<".">> \o ent)
        ELSE IF maybe_mod # <<>> /\ has_node(g, node_id)
        THEN add_edge(g, rel_path, node_id, EDGE_TYPE_IMPORTS)
        ELSE g

ResolveImportItem(g, item) ==
    IF item.kind = "entity"
    THEN ImportEntityEdge(g, item.file, item.module, item.ent)
    ELSE ImportFileEdge(g, item.file, item.module)

\* ------------------------------------------------------------------------
\* build_graph, step 3: inherits and invokes
\* ------------------------------------------------------------------------
\* the simple trailing name of a base or callee expression, <<>> when the
\* expression is neither a Name nor an Attribute
SimpleName(expr) ==
    IF expr.form \in {"Name", "Attribute"} THEN expr.id ELSE <<>>

\* class_nid / func_nid = f"{rel_path}:{node.name}"
RefSourceNid(rel_path, node) == SymbolNid(rel_path, node.name)

\* one candidate edge; owner is the ClassDef or function node being scanned
\* and at the node the reference stands in (the ClassDef, or the Call)
RefItem(rel_path, t, owner, at, expr, type) ==
    IF SimpleName(expr) = <<>> THEN <<>>
    ELSE << [src |-> RefSourceNid(rel_path, t[owner]),
             dst |-> SymbolNid(rel_path, SimpleName(expr)),
             type |-> type, file |-> rel_path, owner |-> owner, at |-> at] >>

RECURSIVE BaseItems(_, _, _, _)
BaseItems(rel_path, t, i, bases) ==
    IF bases = <<>> THEN <<>>
    ELSE RefItem(rel_path, t, i, i, bases[1], EDGE_TYPE_INHERITS)
            \o BaseItems(rel_path, t, i, Tail(bases))

\* for call in ast.walk(node): the Call nodes anywhere below the function
RECURSIVE CallItems(_, _, _, _)
CallItems(rel_path, t, i, idxs) ==
    IF idxs = <<>> THEN <<>>
    ELSE (IF t[idxs[1]].kind = "Call"
          THEN RefItem(rel_path, t, i, idxs[1], t[idxs[1]].exprs[1],
                       EDGE_TYPE_INVOKES)
          ELSE <<>>)
            \o CallItems(rel_path, t, i, Tail(idxs))

RECURSIVE RefItemsOfNodes(_, _, _)
RefItemsOfNodes(rel_path, t, idxs) ==
    IF idxs = <<>> THEN <<>>
    ELSE LET i == idxs[1]
         IN  (CASE t[i].kind = "ClassDef" ->
                     BaseItems(rel_path, t, i, t[i].exprs)
                [] t[i].kind \in {"FunctionDef", "AsyncFunctionDef"} ->
                     CallItems(rel_path, t, i, AstWalk(t, i))
                [] OTHER -> <<>>)
                \o RefItemsOfNodes(rel_path, t, Tail(idxs))

RefItemsOfFile(rel_path) ==
    LET content == ContentOf(rel_path)
    IN  IF ~_read_tree_ok(content) THEN <<>>
        ELSE RefItemsOfNodes(rel_path, content.ast,
                             Tail(AstWalk(content.ast, 0)))

RECURSIVE RefItems(_)
RefItems(fn) ==
    IF fn = <<>> THEN <<>>
    ELSE RefItemsOfFile(fn[1]) \o RefItems(Tail(fn))

\* the same without the test that the target is a node
ResolveRefItem_unguarded(g, item) ==
    add_edge(g, item.src, item.dst, item.type)

ResolveRefItem(g, item) ==
    IF has_node(g, item.dst)
    THEN add_edge(g, item.src, item.dst, item.type)
    ELSE g

\* ------------------------------------------------------------------------
\* Neo4jClient.  The database is [nodes, rels]: nodes maps the id of a
\* CodeNode to its properties (the MERGE on id keeps one node per id), rels
\* is the set of RELATION relationships [src, dst, type] between them.
\* ------------------------------------------------------------------------
EmptyStore == [nodes |-> [k \in {} |-> 0], rels |-> {}]

\* data.get("type", "unknown")
StoredType(attrs) == IF attrs.type = NO_TYPE THEN "unknown" ELSE attrs.type

\* _CYPHER_MERGE_NODE, run for every node of the graph: find or create the
\* CodeNode with this id, then SET its properties, repo_id among them
_write_node_chunk(d, graph, repo_id) ==
    [d EXCEPT !.nodes =
        [k \in DOMAIN d.nodes \cup DOMAIN graph.nodes |->
            IF k \in DOMAIN graph.nodes
            THEN [repo_id |-> repo_id, type |-> StoredType(graph.nodes[k])]
            ELSE d.nodes[k]]]

\* MATCH (a:CodeNode {id: $src, repo_id: $repo_id})
MatchNode(d, id, repo_id) ==
    id \in DOMAIN d.nodes /\ d.nodes[id].repo_id = repo_id

\* _CYPHER_MERGE_REL, run for every edge of the graph
_write_edge_chunk(d, graph, repo_id) ==
    [d EXCEPT !.rels =
        @ \cup {[src |-> e.src, dst |-> e.dst, type |-> e.type] :
                  e \in {x \in DOMAIN graph.edges :
                            /\ MatchNode(d, x.src, repo_id)
                            /\ MatchNode(d, x.dst, repo_id)}}]

\* the second statement of _wipe_database fails when a node it would delete
\* still has a relationship
WipeFails(d, repo_id) ==
    \E r \in d.rels : MatchNode(d, r.src, repo_id) \/ MatchNode(d, r.dst, repo_id)

\* _wipe_database: no relationship has a repo_id property, so the first
\* statement deletes nothing; the second deletes the nodes of repo_id
_wipe_database(d, repo_id) ==
    IF WipeFails(d, repo_id) THEN d
    ELSE [d EXCEPT !.nodes =
            [k \in {x \in DOMAIN d.nodes : d.nodes[x].repo_id # repo_id} |->
                d.nodes[k]]]

\* the database after push_graph_to_neo4j has run to its end
Pushed(d, graph, repo_id, clear_first) ==
    LET wiped == IF clear_first THEN _wipe_database(d, repo_id) ELSE d
    IN  _write_edge_chunk(_write_node_chunk(wiped, graph, repo_id),
                          graph, repo_id)

\* ------------------------------------------------------------------------
\* The repositories checked: a family of directory trees with simple
\* files, and a family of single files with every small syntax tree
\* ------------------------------------------------------------------------
MaxFiles == 2
MaxAst == 3

REPO_PATH == <<"/", "w">>

D_p == <<"p">>
D_p2 == <<"p", "2">>
D_s == <<"s">>
D_env == <<"e", "n", "v">>
F_a == <<"a", ".", "p", "y">>
F_b == <<"b", ".", "p", "y">>
F_txt == <<"N", ".", "T", "X", "T">>
F_bin == <<"x", ".", "b", "i", "n">>
F_readme == <<"R", "E", "A", "D", "M", "E", ".", "m", "d">>
ID_A == <<"A">>
ID_B == <<"B">>

CandDirs == { <<>>, <<D_p>>, <<D_p, D_s>>, <<D_p, D_env>>, <<D_p2>> }

CandFiles ==
    { <<F_a>>, <<F_readme>>, <<D_p, F_b>>, <<D_p, F_txt>>, <<D_p, D_s, F_a>>,
      <<D_p, D_env, F_a>>, <<D_p2, F_bin>> }

DirSets ==
    {D \in SUBSET CandDirs :
        <<>> \in D /\ \A d \in D : d # <<>> => Front(d) \in D}

Data == [status |-> "ok", ast |-> <<>>]

Tree(t) == [status |-> "ok", ast |-> t]

Broken(why) == [status |-> why, ast |-> <<>>]

Node(kind, name, parent, exprs) ==
    [kind |-> kind, name |-> name, parent |-> parent, exprs |-> exprs,
     level |-> 0]

Expr(form, id) == [form |-> form, id |-> id]

WalkContents ==
    { Tree(<<Node("ClassDef", ID_A, 0, <<>>)>>),
      Broken("syntax"), Broken("undecodable"), Broken("unreadable") }

IsPy(f) == EndsWith(Last(f), PY_SUFFIX)

FileMaps(S, contents) ==
    {m \in [S -> contents \cup {Data}] : \A f \in S : IsPy(f) <=> m[f] # Data}

WalkRepos(maxFiles) ==
    UNION { UNION { {[path |-> REPO_PATH, dirs |-> D, files |-> m] :
                        m \in FileMaps(S, WalkContents)} :
                    S \in {S \in SUBSET {f \in CandFiles : Front(f) \in D} :
                              Cardinality(S) <= maxFiles} } :
            D \in DirSets }

\* syntax trees of at most MaxAst nodes, in source order
BaseOptions == { <<>>, <<Expr("Name", ID_A)>>, <<Expr("Attribute", ID_B)>> }

CalleeOptions == { Expr("Name", ID_A), Expr("Attribute", ID_B), Expr("Other", <<>>) }

NodeOptions(parents) ==
    UNION { {Node("ClassDef", n, p, b) : n \in {ID_A, ID_B}, b \in BaseOptions}
            \cup {Node(k, n, p, <<>>) :
                     k \in {"FunctionDef", "AsyncFunctionDef"},
                     n \in {ID_A, INIT_NAME}}
            \cup {Node("Call", <<>>, p, <<c>>) : c \in CalleeOptions} :
            p \in parents }

\* the nodes a next statement can be nested in: the last node and its
\* ancestors, when they are declarations, and the Module
RECURSIVE OpenBlocks(_, _)
OpenBlocks(t, i) ==
    IF i = 0 THEN {0}
    ELSE (IF t[i].kind \in DefKinds THEN {i} ELSE {}) \cup OpenBlocks(t, t[i].parent)

RECURSIVE Asts(_)
Asts(n) ==
    IF n = 0 THEN {<<>>}
    ELSE LET prev == Asts(n - 1)
         IN  prev \cup UNION { {Append(t, x) : x \in NodeOptions(OpenBlocks(t, Len(t)))} :
                               t \in {u \in prev : Len(u) = n - 1} }

AstRepos(maxAst) ==
    {[path |-> REPO_PATH, dirs |-> {<<>>}, files |-> (<<F_a>> :> Tree(t))] :
        t \in Asts(maxAst)}

\* one importing file beside the package p with its module b
F_init == INIT_NAME \o PY_SUFFIX
M_p == <<"p">>
M_pb == <<"p", ".", "b">>
ID_b == <<"b">>

ImportNode(names) ==
    [kind |-> "Import", name |-> <<>>, parent |-> 0,
     exprs |-> [k \in 1..Len(names) |-> Expr("alias", names[k])], level |-> 0]

ImportFromNode(module, names, level) ==
    [kind |-> "ImportFrom", name |-> module, parent |-> 0,
     exprs |-> [k \in 1..Len(names) |-> Expr("alias", names[k])],
     level |-> level]

ImportOptions ==
    { ImportNode(<<M_pb>>), ImportNode(<<M_p, M_pb>>),
      ImportFromNode(M_p, <<ID_b>>, 0),
      ImportFromNode(M_pb, <<ID_A>>, 0),
      ImportFromNode(M_pb, <<ID_A, ID_B>>, 0),
      ImportFromNode(M_pb, << <<"*">> >>, 0),
      ImportFromNode(M_p, <<ID_b>>, 1),
      ImportFromNode(<<>>, <<ID_b>>, 1) }

ImportRepos ==
    {[path |-> REPO_PATH, dirs |-> {<<>>, <<D_p>>},
      files |-> (main :> Tree(<<imp>>))
                @@ (<<D_p, F_b>> :> Tree(<<Node("ClassDef", ID_A, 0, <<>>)>>))
                @@ extra] :
        main \in {<<F_a>>, <<D_p, F_a>>},
        imp \in ImportOptions,
        extra \in {[f \in {} |-> Data], <<D_p, F_init>> :> Tree(<<>>)}}

Repos(maxFiles, maxAst) ==
    WalkRepos(maxFiles) \cup AstRepos(maxAst) \cup ImportRepos

\* declarations only, nested up to MaxAst deep, in a file of the
\* repository root or of the directory p
DeclOptions(parents) ==
    {Node(k, n, p, <<>>) :
        k \in DefKinds, n \in {ID_A, INIT_NAME}, p \in parents}

RECURSIVE DeclAsts(_)
DeclAsts(n) ==
    IF n = 0 THEN {<<>>}
    ELSE LET prev == DeclAsts(n - 1)
         IN  prev \cup UNION { {Append(t, x) : x \in DeclOptions(OpenBlocks(t, Len(t)))} :
                               t \in {u \in prev : Len(u) = n - 1} }

DeclRepos(maxAst) ==
    {[path |-> REPO_PATH, dirs |-> {Front(f)} \cup {<<>>},
      files |-> (f :> Tree(t))] :
        f \in {<<F_a>>, <<D_p, F_b>>}, t \in DeclAsts(maxAst)}

\* importing files at three depths beside modules b of the root, of the
\* package p, of p/s and of the excluded directory env; imports absolute
\* and relative, of a module, of names and of everything
MaxLevel == 2
MaxRefAst == 2

M_b == <<"b">>
M_env == D_env
M_envb == D_env \o <<".">> \o ID_b

RelativeImportOptions(maxLevel) ==
    {ImportFromNode(m, names, l) :
        m \in {<<>>, M_b},
        names \in {<<ID_b>>, <<ID_A>>, << <<"*">> >>},
        l \in 1..maxLevel}

LinkImportOptions(maxLevel) ==
    ImportOptions
        \cup {ImportNode(<<M_envb>>), ImportFromNode(M_env, <<ID_b>>, 0)}
        \cup RelativeImportOptions(maxLevel)

LinkTargets == { <<F_b>>, <<D_p, F_b>>, <<D_p, D_s, F_b>>, <<D_p, F_init>>,
                 <<D_env, F_b>> }

LinkImporters == { <<F_a>>, <<D_p, F_a>>, <<D_p, D_s, F_a>> }

RECURSIVE Prefixes(_)
Prefixes(d) == IF d = <<>> THEN {<<>>} ELSE {d} \cup Prefixes(Front(d))

ImportLinkRepos(maxLevel) ==
    {[path |-> REPO_PATH,
      dirs |-> UNION {Prefixes(Front(f)) : f \in T \cup {main}},
      files |-> [f \in T \cup {main} |->
                    IF f = main THEN Tree(<<imp>>)
                    ELSE Tree(<<Node("ClassDef", ID_A, 0, <<>>)>>)]] :
        T \in SUBSET LinkTargets,
        main \in LinkImporters,
        imp \in LinkImportOptions(maxLevel)}

LinkRepos(maxLevel, maxRefAst) ==
    ImportLinkRepos(maxLevel) \cup AstRepos(maxRefAst)

\* the default of the parameter skip_tests; build_graph reads it nowhere
skip_tests == TRUE

\* repositories with test paths and with files in and below the excluded
\* directory env
D_tests == <<"t", "e", "s", "t", "s">>
F_test == <<"t", "e", "s", "t", "_", "a", ".", "p", "y">>

NamedFiles ==
    { <<F_a>>, <<F_test>>, <<D_tests, F_a>>, <<D_env, F_a>>,
      <<D_env, D_s, F_a>>, <<D_env, F_txt>> }

NamedRepos ==
    {[path |-> REPO_PATH,
      dirs |-> {<<>>} \cup UNION {Prefixes(Front(f)) : f \in S},
      files |-> [f \in S |->
                    IF IsPy(f) THEN Tree(<<Node("ClassDef", ID_A, 0, <<>>)>>)
                    ELSE Data]] :
        S \in SUBSET NamedFiles}

\* ------------------------------------------------------------------------
\* The state machine
\* ------------------------------------------------------------------------
InitOn(repos) ==
    /\ repo \in repos
    /\ pc = "readme"
    /\ G = add_node(EmptyGraph, ROOT_KEY, NODE_TYPE_DIRECTORY)
    /\ file_nodes = <<>>
    /\ dir_stack = <<>>
    /\ dir_included = <<>>
    /\ walk_todo = << <<>> >>
    /\ work = <<>>
    /\ db = EmptyStore
    /\ summary = NoSummaries
    /\ pickles = {}
    /\ vectors = {}
    /\ response = NO_RESPONSE

\* step 0
ReadmeStep ==
    /\ pc = "readme"
    /\ pc' = "walk"
    /\ G' = ReadmeGraph(G)
    /\ UNCHANGED <<repo, file_nodes, dir_stack, dir_included, walk_todo, work,
                   db, appvars>>

\* where build_graph goes on after the walk and after step 2: the loops of
\* steps 2 and 3 run over what _find_imports and the tree walk return
AfterImports(fn) ==
    LET items == RefItems(fn)
    IN  [pc |-> IF items # <<>> THEN "refs" ELSE "done", work |-> items]

AfterWalk(fn) ==
    LET items == ImportItems(fn)
    IN  IF items # <<>> THEN [pc |-> "imports", work |-> items]
        ELSE AfterImports(fn)

\* one iteration of "for root, _dirs, files in os.walk(repo_path)": os.walk
\* yields a directory and then, in any order, the trees of its subdirectories
WalkDir ==
    /\ pc = "walk"
    /\ walk_todo # <<>>
    /\ LET d == Head(walk_todo)
           root == AbsPath(d)
           rel_dir == RelDir(root)
       IN  \E subs \in Orders(Subdirs(d)) :
             LET todo == subs \o Tail(walk_todo)
             IN  IF _is_skip_dir(root)
                 THEN /\ walk_todo' = todo
                      /\ IF todo = <<>>
                         THEN LET nxt == AfterWalk(file_nodes)
                              IN  pc' = nxt.pc /\ work' = nxt.work
                         ELSE UNCHANGED <<pc, work>>
                      /\ UNCHANGED <<G, file_nodes, dir_stack, dir_included>>
                 ELSE \E files \in Orders(FilesIn(d)) :
                        LET popped == PopDirs([g |-> RegisterDir(G, rel_dir),
                                               stack |-> dir_stack,
                                               included |-> dir_included,
                                               raised |-> FALSE], rel_dir)
                            pushed == IF rel_dir # ROOT_KEY
                                      THEN [popped EXCEPT
                                              !.stack = Append(@, rel_dir),
                                              !.included = Append(@, FALSE)]
                                      ELSE popped
                            scanned == ScanFiles([g |-> pushed.g, fn |-> file_nodes,
                                                  raised |-> pushed.raised],
                                                 d, root, rel_dir, files)
                        IN  IF scanned.raised
                            THEN /\ pc' = "raised"
                                 /\ UNCHANGED <<G, file_nodes, dir_stack,
                                                dir_included, walk_todo, work>>
                            ELSE /\ G' = scanned.g
                                 /\ file_nodes' = scanned.fn
                                 /\ dir_stack' = pushed.stack
                                 /\ dir_included' = pushed.included
                                 /\ walk_todo' = todo
                                 /\ IF todo = <<>>
                                    THEN LET nxt == AfterWalk(scanned.fn)
                                         IN  pc' = nxt.pc /\ work' = nxt.work
                                    ELSE UNCHANGED <<pc, work>>
    /\ UNCHANGED <<repo, db, appvars>>

\* one import record of step 2
ResolveImport ==
    /\ pc = "imports"
    /\ G' = ResolveImportItem(G, Head(work))
    /\ IF Tail(work) = <<>>
       THEN LET nxt == AfterImports(file_nodes)
            IN  pc' = nxt.pc /\ work' = nxt.work
       ELSE /\ work' = Tail(work)
            /\ UNCHANGED pc
    /\ UNCHANGED <<repo, file_nodes, dir_stack, dir_included, walk_todo, db, appvars>>

\* one base class or call of step 3
ResolveRef ==
    /\ pc = "refs"
    /\ G' = ResolveRefItem(G, Head(work))
    /\ work' = Tail(work)
    /\ pc' = IF Tail(work) = <<>> THEN "done" ELSE "refs"
    /\ UNCHANGED <<repo, file_nodes, dir_stack, dir_included, walk_todo, db, appvars>>

Init == InitOn(Repos(MaxFiles, MaxAst))

Next == ReadmeStep \/ WalkDir \/ ResolveImport \/ ResolveRef

Spec == Init /\ [][Next]_vars

\* the symbol extractor and step 1 alone, on files that hold declarations
\* only: steps 2 and 3 have nothing to resolve there
InitDecl == InitOn(DeclRepos(MaxAst))

NextDecl == ReadmeStep \/ WalkDir

SpecDecl == InitDecl /\ [][NextDecl]_vars

\* a file that imports from the module p.b, whose file holds any small
\* syntax tree
CrossImportOptions ==
    { ImportNode(<<M_pb>>),
      ImportFromNode(M_pb, <<ID_A>>, 0),
      ImportFromNode(M_pb, <<ID_B>>, 0) }

CrossRepos(maxRefAst) ==
    {[path |-> REPO_PATH, dirs |-> {<<>>, <<D_p>>},
      files |-> (<<F_a>> :> Tree(<<imp>>)) @@ (<<D_p, F_b>> :> Tree(t))] :
        imp \in CrossImportOptions, t \in Asts(maxRefAst)}

InitCross == InitOn(CrossRepos(MaxRefAst))

SpecCross == InitCross /\ [][Next]_vars

\* steps 2 and 3 on the import repositories and on small syntax trees
InitLink == InitOn(LinkRepos(MaxLevel, MaxRefAst))

SpecLink == InitLink /\ [][Next]_vars

\* one small tree at three places: repo_path is /w, or lies below a
\* directory that has the name of an excluded one
PlacedPaths ==
    { REPO_PATH,
      <<"/">> \o D_env \o REPO_PATH,
      <<"/", "t", "/", "s", "c", "r", "i", "p", "t", "s">> }

PlacedRepos ==
    {[path |-> at,
      dirs |-> {<<>>} \cup UNION {Prefixes(Front(f)) : f \in S},
      files |-> [f \in S |->
                    IF IsPy(f) THEN Tree(<<Node("ClassDef", ID_A, 0, <<>>)>>)
                    ELSE Data]] :
        at \in PlacedPaths,
        S \in SUBSET {<<F_a>>, <<D_p, F_b>>, <<D_p, F_txt>>, <<D_env, F_a>>}}

\* step 1 alone, on the directory trees
InitWalk == InitOn(WalkRepos(MaxFiles) \cup NamedRepos \cup PlacedRepos)

NextWalk == ReadmeStep \/ WalkDir

SpecWalk == InitWalk /\ [][NextWalk]_vars

\* the graphs pushed: the root with some of the files setup.py, a.py and
\* b.py below it, under the repository identifiers A, B and C
F_setup == <<"s", "e", "t", "u", "p", ".", "p", "y">>

RepoIds == {"A", "B", "C"}

FileGraph(S) ==
    [nodes |-> [k \in {ROOT_KEY} \cup S |->
                   [type |-> IF k = ROOT_KEY THEN NODE_TYPE_DIRECTORY
                             ELSE NODE_TYPE_FILE,
                    src |-> 0]],
     edges |-> SetToBag({[src |-> ROOT_KEY, dst |-> k,
                          type |-> EDGE_TYPE_CONTAINS] : k \in S})]

PushGraphs == {FileGraph(S) : S \in SUBSET {F_setup, F_a, F_b}}

\* push_graph_to_neo4j(graph, repo_id=..., clear_first=...).  When the wipe
\* fails the driver either raises, and nothing is written, or the error is
\* lost when the session closes, and the push goes on.
push_graph_to_neo4j(graph, repo_id, clear_first) ==
    /\ \/ db' = Pushed(db, graph, repo_id, clear_first)
       \/ /\ clear_first
          /\ WipeFails(db, repo_id)
          /\ db' = db
    /\ UNCHANGED <<repo, pc, G, file_nodes, dir_stack, dir_included,
                   walk_todo, work, appvars>>

Push ==
    \E graph \in PushGraphs, repo_id \in RepoIds, clear_first \in BOOLEAN :
        push_graph_to_neo4j(graph, repo_id, clear_first)

\* the database alone: pushes, one after the other, into an empty database
InitStore ==
    InitOn({[path |-> REPO_PATH, dirs |-> {<<>>}, files |-> [f \in {} |-> Data]]})

SpecStore == InitStore /\ [][Push]_vars

\* ------------------------------------------------------------------------
\* Vocabulary of the properties
\* ------------------------------------------------------------------------
Done == pc = "done"

Keys == DOMAIN G.nodes

HasEdge(u, v, type) == BagIn([src |-> u, dst |-> v, type |-> type], G.edges)

ContainsEdges == {e \in DOMAIN G.edges : e.type = EDGE_TYPE_CONTAINS}

RefTypes == {EDGE_TYPE_IMPORTS, EDGE_TYPE_INHERITS, EDGE_TYPE_INVOKES}

NodeKinds ==
    {NODE_TYPE_DIRECTORY, NODE_TYPE_FILE, NODE_TYPE_GENERIC, NODE_TYPE_README,
     NODE_TYPE_CLASS, NODE_TYPE_FUNCTION}

\* the key of a file or directory of the snapshot
KeyOf(names) == RelPath(AbsPath(names), repo.path)

\* the keys that can stand for the repository root: the sentinel, and the
\* key os.path.relpath gives repo_path itself
RootKeys == {ROOT_KEY, <<".">>}

\* the source files step 1 reaches, and those among them that parse
ScannedPy ==
    {f \in DOMAIN repo.files : IsPy(f) /\ ~_is_skip_dir(AbsPath(Front(f)))}

ParsedPy == {f \in ScannedPy : repo.files[f].status = "ok"}

IsSymbolKey(k) == ":" \in Range(k)

\* the keys of the symbols of the file with key fk
SymbolKeysOf(fk) == {k \in Keys : StartsWith(k, fk \o <<":">>)}

\* the parents the containment tree allows for key k
ExpectedParents(k) ==
    IF k \in {README_KEY, <<".">>} THEN {ROOT_KEY}
    ELSE IF IsSymbolKey(k)
    THEN LET parts == Split(k, ":") IN {ParentNid(parts[1], parts[2])}
    ELSE IF Dirname(k) = <<>> THEN RootKeys
    ELSE {Dirname(k)}

\* the nodes reachable from S along contains edges
RECURSIVE ContainsClosure(_)
ContainsClosure(S) ==
    LET more == S \cup {e.dst : e \in {x \in ContainsEdges : x.src \in S}}
    IN  IF more = S THEN S ELSE ContainsClosure(more)

\* the dotted name of declaration i, from the nesting of the tree
RECURSIVE QualName(_, _)
QualName(t, i) ==
    IF t[i].parent = 0 THEN t[i].name
    ELSE QualName(t, t[i].parent) \o <<".">> \o t[i].name

\* declaration i is a constructor: a method __init__ of a class
IsConstructor(t, i) ==
    /\ t[i].kind \in {"FunctionDef", "AsyncFunctionDef"}
    /\ t[i].name = INIT_NAME
    /\ t[i].parent # 0
    /\ t[t[i].parent].kind = "ClassDef"

\* node i lies in the body of a constructor
RECURSIVE InConstructor(_, _)
InConstructor(t, i) ==
    /\ i # 0
    /\ t[i].parent # 0
    /\ (IsConstructor(t, t[i].parent) \/ InConstructor(t, t[i].parent))

\* ------------------------------------------------------------------------
\* Claims
\* ------------------------------------------------------------------------

\* C1: in the returned graph every node except the root "/" has an incoming
\* contains edge from its filesystem parent (directories, files) or its
\* lexical parent (classes, functions).
C1_EveryNodeHasContainsParent ==
    Done => \A k \in Keys \ {ROOT_KEY} :
                \E parent \in ExpectedParents(k) :
                    HasEdge(parent, k, EDGE_TYPE_CONTAINS)

\* C2: in the returned graph every node other than the root is reached from
\* "/" by exactly one path of contains edges: it is reachable, and exactly
\* one contains edge, counted with multiplicity, enters it.
C2_ExactlyOneContainsPath ==
    Done => \A k \in Keys \ {ROOT_KEY} :
                /\ k \in ContainsClosure({ROOT_KEY})
                /\ LET into == {e \in ContainsEdges : e.dst = k}
                   IN  /\ Cardinality(into) = 1
                       /\ \A e \in into : CopiesIn(e, G.edges) = 1

\* C3: every directory node of the returned graph (other than the node of
\* the repository root) has at least one descendant.
C3_NoEmptyDirectory ==
    Done => \A k \in Keys \ RootKeys :
                G.nodes[k].type = NODE_TYPE_DIRECTORY
                    => \E e \in ContainsEdges : e.src = k

\* C4: whenever an imports, inherits or invokes edge is added, both its
\* endpoints are nodes already, and steps 2 and 3 bring no new node.
C4_RefEdgesJoinExistingNodes ==
    [][ /\ \A e \in DOMAIN G'.edges :
              (e.type \in RefTypes
                 /\ CopiesIn(e, G'.edges) > CopiesIn(e, G.edges))
                => (e.src \in DOMAIN G.nodes /\ e.dst \in DOMAIN G.nodes)
        /\ (pc \in {"imports", "refs"}) => (DOMAIN G'.nodes = DOMAIN G.nodes)
      ]_vars

\* C5: build_graph has no fatal outcome: it never raises, whatever the
\* files hold, and the graph it returns has the root node.
C5_NeverRaises ==
    /\ pc # "raised"
    /\ Done => ROOT_KEY \in Keys

\* C6: for a source file that is undecodable or syntactically invalid the
\* build still returns a graph (here: in a repository without unreadable
\* files), the graph has the file's node with the contains edge from its
\* directory, no symbol of the file and no reference edge from the file.
C6_BrokenSourceKeepsFileNode ==
    (\A f \in DOMAIN repo.files : repo.files[f].status # "unreadable")
    => \A f \in ScannedPy :
          repo.files[f].status \in {"undecodable", "syntax"}
          => /\ pc # "raised"
             /\ Done =>
                  /\ KeyOf(f) \in Keys
                  /\ G.nodes[KeyOf(f)].type = NODE_TYPE_FILE
                  /\ \E dir \in (IF Front(f) = <<>> THEN RootKeys
                                 ELSE {KeyOf(Front(f))}) :
                        HasEdge(dir, KeyOf(f), EDGE_TYPE_CONTAINS)
                  /\ SymbolKeysOf(KeyOf(f)) = {}
                  /\ \A e \in DOMAIN G.edges :
                        e.type \in RefTypes
                          => /\ e.src # KeyOf(f)
                             /\ ~StartsWith(e.src, KeyOf(f) \o <<":">>)

\* C7: at every step every node carries a kind, one of directory, file,
\* generic_file, readme, class, function.
C7_EveryNodeHasKind == \A k \in Keys : G.nodes[k].type \in NodeKinds

\* C8: no node of the returned graph was made from a constructor (a method
\* __init__ of a class, declared with def or async def).
C8_NoConstructorNode ==
    Done => \A f \in ParsedPy :
              \A i \in 1..Len(repo.files[f].ast) :
                 IsConstructor(repo.files[f].ast, i)
                   => \A k \in SymbolKeysOf(KeyOf(f)) : G.nodes[k].src # i

\* C9: a call that stands in the body of a constructor adds no edge:
\* resolving it leaves the graph as it was.
C9_ConstructorCallsDropped ==
    [][ (/\ pc = "refs"
         /\ Head(work).type = EDGE_TYPE_INVOKES
         /\ InConstructor(ContentOf(Head(work).file).ast, Head(work).at))
        => G' = G ]_vars

\* C10: every declaration the symbol extractor records has the dotted name
\* of its nesting, its node "<file>:<dotted name>" is in the graph, and a
\* contains edge runs to it from the node of the enclosing declaration, or
\* from the file node when nothing encloses it.
C10_SymbolKeysAndOwners ==
    Done => \A f \in ParsedPy :
              LET t == repo.files[f].ast
                  metas == _analyze_file(repo.files[f])
              IN  \A m \in 1..Len(metas) :
                     LET i == metas[m].src
                         nid == KeyOf(f) \o <<":">> \o QualName(t, i)
                         owner == IF t[i].parent = 0 THEN KeyOf(f)
                                  ELSE KeyOf(f) \o <<":">>
                                          \o QualName(t, t[i].parent)
                     IN  /\ metas[m].name = QualName(t, i)
                         /\ nid \in Keys
                         /\ G.nodes[nid].type
                               \in {NODE_TYPE_CLASS, NODE_TYPE_FUNCTION}
                         /\ HasEdge(owner, nid, EDGE_TYPE_CONTAINS)

\* a nested declaration was recorded and has its node
C10_Witness ==
    /\ Done
    /\ \E f \in ParsedPy :
          LET metas == _analyze_file(repo.files[f])
          IN  \E m \in 1..Len(metas) :
                 /\ repo.files[f].ast[metas[m].src].parent # 0
                 /\ SymbolNid(KeyOf(f), metas[m].name) \in Keys

\* the keys of the class and function nodes step 1 creates
DeclaredSymbolKeys ==
    UNION { {SymbolNid(KeyOf(f), _analyze_file(repo.files[f])[m].name) :
                m \in 1..Len(_analyze_file(repo.files[f]))} :
            f \in ParsedPy }

\* an edge of one of the three reference types is added by this step
AddsRefEdge ==
    \E e \in DOMAIN G'.edges :
        e.type \in RefTypes /\ CopiesIn(e, G'.edges) > CopiesIn(e, G.edges)

\* C11: an imports, inherits or invokes edge is added only when the walk of
\* step 1 is over, and a base class or call gets its edge exactly when its
\* target key is one of the symbols step 1 created for the whole file, so the
\* outcome is the same wherever the target is declared.
C11_EdgesAfterAllNodes ==
    [][ /\ AddsRefEdge => (pc \in {"imports", "refs"} /\ walk_todo = <<>>)
        /\ pc = "refs" =>
             (AddsRefEdge <=> Head(work).dst \in DeclaredSymbolKeys)
      ]_vars

\* the key of a file or directory: its names joined with "/"
PathKey(names) == JoinWith(names, "/")

NoKey == <<>>

\* the file a dotted module name stands for: a/b/c.py, else
\* a/b/c/__init__.py, else none; an empty segment names no directory
ModuleFile(module) ==
    LET parts == SelectSeq(Split(module, "."), LAMBDA x : x # <<>>)
        last == IF module = <<>> \/ Last(module) = "." THEN <<>>
                ELSE Last(parts)
        dir == IF last = <<>> THEN parts ELSE Front(parts)
        asFile == Append(dir, last \o PY_SUFFIX)
        asPackage == Append(parts, INIT_NAME \o PY_SUFFIX)
    IN  IF asFile \in DOMAIN repo.files THEN asFile
        ELSE IF asPackage \in DOMAIN repo.files THEN asPackage
        ELSE <<>>

FileTarget(module) ==
    IF ModuleFile(module) = <<>> THEN NoKey ELSE PathKey(ModuleFile(module))

\* the key an import record resolves to
ImportTargetKey(item) ==
    IF item.kind = "entity"
    THEN IF FileTarget(item.module \o <<".">> \o item.ent) # NoKey
         THEN FileTarget(item.module \o <<".">> \o item.ent)
         ELSE IF FileTarget(item.module) # NoKey
         THEN FileTarget(item.module) \o <<":">> \o item.ent
         ELSE NoKey
    ELSE FileTarget(item.module)

\* C12: an import, base class or call whose target key is no node of the
\* graph is dropped: processing it leaves the graph as it was and the build
\* goes on without an error.
C12_UnresolvedDropped ==
    [][ /\ (pc = "imports" /\ ImportTargetKey(Head(work)) \notin Keys)
             => (G' = G /\ pc' # "raised")
        /\ (pc = "refs" /\ Head(work).dst \notin Keys)
             => (G' = G /\ pc' # "raised")
      ]_vars

\* the build is over and it met a call or base class whose target is no
\* node, or an import whose target is no node
C12_Witness ==
    /\ Done
    /\ \/ \E k \in 1..Len(RefItems(file_nodes)) :
             RefItems(file_nodes)[k].dst \notin Keys
       \/ \E k \in 1..Len(ImportItems(file_nodes)) :
             ImportTargetKey(ImportItems(file_nodes)[k]) \notin Keys

\* build_graph run from start to end with the directory listings taken in
\* one fixed order: the graph one enumeration order gives
CanonOrder(S) == CHOOSE o \in Orders(S) : TRUE

\* one iteration of the os.walk loop; st is [g, fn, stack, included, raised]
CanonWalkStep(st, d) ==
    LET root == AbsPath(d)
        rel_dir == RelDir(root)
        popped == PopDirs([g |-> RegisterDir(st.g, rel_dir),
                           stack |-> st.stack, included |-> st.included,
                           raised |-> FALSE], rel_dir)
        pushed == IF rel_dir # ROOT_KEY
                  THEN [popped EXCEPT !.stack = Append(@, rel_dir),
                                      !.included = Append(@, FALSE)]
                  ELSE popped
        scanned == ScanFiles([g |-> pushed.g, fn |-> st.fn,
                              raised |-> pushed.raised],
                             d, root, rel_dir, CanonOrder(FilesIn(d)))
    IN  IF _is_skip_dir(root) THEN st
        ELSE [g |-> scanned.g, fn |-> scanned.fn, stack |-> pushed.stack,
              included |-> pushed.included, raised |-> scanned.raised]

RECURSIVE CanonWalk(_, _)
CanonWalk(st, todo) ==
    IF todo = <<>> \/ st.raised THEN st
    ELSE CanonWalk(CanonWalkStep(st, Head(todo)),
                   CanonOrder(Subdirs(Head(todo))) \o Tail(todo))

RECURSIVE FoldImports(_, _)
FoldImports(g, items) ==
    IF items = <<>> THEN g
    ELSE FoldImports(ResolveImportItem(g, Head(items)), Tail(items))

RECURSIVE FoldRefs(_, _)
FoldRefs(g, items) ==
    IF items = <<>> THEN g
    ELSE FoldRefs(ResolveRefItem(g, Head(items)), Tail(items))

CanonBuild ==
    LET w == CanonWalk([g |-> ReadmeGraph(add_node(EmptyGraph, ROOT_KEY,
                                                   NODE_TYPE_DIRECTORY)),
                        fn |-> <<>>, stack |-> <<>>, included |-> <<>>,
                        raised |-> FALSE],
                       << <<>> >>)
    IN  [raised |-> w.raised,
         g |-> IF w.raised THEN w.g
               ELSE FoldRefs(FoldImports(w.g, ImportItems(w.fn)),
                             RefItems(w.fn))]

\* C13: the graph build_graph returns is the same for every order in which
\* the directory listings come: it has the nodes and the edges of the build
\* that takes the listings in one fixed order.
C13_SameGraphForEveryListingOrder ==
    Done => /\ ~CanonBuild.raised
            /\ DOMAIN G.nodes = DOMAIN CanonBuild.g.nodes
            /\ G.edges = CanonBuild.g.edges

\* a node the walk made: it carries a kind
IsRealNode(k) == k \in Keys /\ G.nodes[k].type \in NodeKinds

\* the module path of file f, as segments: p/s/a.py is p, s, a
ModulePathSegs(f) ==
    Append(Front(f), SubSeq(Last(f), 1, Len(Last(f)) - Len(PY_SUFFIX)))

\* the segments left when the last n are removed
AnchorSegs(f, n) ==
    LET segs == ModulePathSegs(f)
    IN  IF n >= Len(segs) THEN <<>> ELSE SubSeq(segs, 1, Len(segs) - n)

\* the absolute module a from-import of file f names
AbsModule(f, node) ==
    IF node.level = 0 THEN node.name
    ELSE JoinWith(AnchorSegs(f, node.level)
                    \o (IF node.name = <<>> THEN <<>> ELSE <<node.name>>),
                  ".")

IsStar(node) == node.kind = "ImportFrom" /\ node.exprs = <<Expr("alias", <<"*">>)>>

\* the key the j-th name of the import statement `node` of file f stands for
ExpectedTarget(f, node, j) ==
    LET m == AbsModule(f, node)
        name == node.exprs[j].id
    IN  IF node.kind = "Import" THEN FileTarget(name)
        ELSE IF IsStar(node) THEN FileTarget(m)
        ELSE IF FileTarget(m \o <<".">> \o name) # NoKey
        THEN FileTarget(m \o <<".">> \o name)
        ELSE IF FileTarget(m) # NoKey
        THEN FileTarget(m) \o <<":">> \o name
        ELSE NoKey

ImportNodesOf(f) ==
    {i \in 1..Len(repo.files[f].ast) :
        repo.files[f].ast[i].kind \in {"Import", "ImportFrom"}}

ImportPairs(f) ==
    {pr \in ImportNodesOf(f) \X (1..2) :
        pr[2] <= Len(repo.files[f].ast[pr[1]].exprs)}

\* the imports edges that leave file f are those its import statements
\* stand for, one per imported name whose target is a node
ImportEdgesAsExpected(f) ==
    LET t == repo.files[f].ast
        fk == PathKey(f)
        out == {e \in DOMAIN G.edges :
                   e.type = EDGE_TYPE_IMPORTS /\ e.src = fk}
        expected(k) ==
            Cardinality({pr \in ImportPairs(f) :
                            ExpectedTarget(f, t[pr[1]], pr[2]) = k})
    IN  /\ IsRealNode(fk)
        /\ G.nodes[fk].type = NODE_TYPE_FILE
        /\ \A e \in out :
              IsRealNode(e.dst) /\ CopiesIn(e, G.edges) = expected(e.dst)
        /\ \A pr \in ImportPairs(f) :
              LET k == ExpectedTarget(f, t[pr[1]], pr[2])
              IN  (k # NoKey /\ IsRealNode(k))
                     => HasEdge(fk, k, EDGE_TYPE_IMPORTS)

PlainOrStar(node) == node.kind = "Import" \/ IsStar(node)

\* C14: at the end of the build, a file whose imports are plain imports and
\* wildcard from-imports has, for each of them, exactly one imports edge to
\* the node of the file the module resolves to, when that file is a node,
\* and no other imports edge.
C14_PlainAndWildcardImports ==
    Done => \A f \in ParsedPy :
              (/\ ImportNodesOf(f) # {}
               /\ \A i \in ImportNodesOf(f) :
                     /\ PlainOrStar(repo.files[f].ast[i])
                     /\ repo.files[f].ast[i].level = 0)
                => ImportEdgesAsExpected(f)

\* a plain import or an absolute wildcard import got its edge to a file
C14_Witness ==
    /\ Done
    /\ \E f \in ParsedPy : \E i \in ImportNodesOf(f) :
          /\ PlainOrStar(repo.files[f].ast[i])
          /\ repo.files[f].ast[i].level = 0
          /\ \E e \in DOMAIN G.edges :
                /\ e.type = EDGE_TYPE_IMPORTS
                /\ e.src = PathKey(f)
                /\ G.nodes[e.dst].type = NODE_TYPE_FILE

C17_NoTestPaths ==
    (skip_tests /\ Done)
        => \A k \in Keys : ~StartsWith(k, <<"t", "e", "s", "t">>)

\* the directory that holds the file with key k, as a key
HolderKey(k) == IF Dirname(k) = <<>> THEN ROOT_KEY ELSE Dirname(k)

\* C18: no node "." is ever created for the repository root, and in the
\* returned graph every file and generic_file node has its contains edge
\* from the node of its directory, "/" for a file of the repository root.
C18_FilesHangUnderTheirDirectory ==
    /\ <<".">> \notin Keys
    /\ Done => \A k \in Keys :
                  G.nodes[k].type \in {NODE_TYPE_FILE, NODE_TYPE_GENERIC}
                    => /\ HolderKey(k) \in Keys
                       /\ HasEdge(HolderKey(k), k, EDGE_TYPE_CONTAINS)

\* the directories of the snapshot with an excluded name on their path
ExcludedDirs == {d \in repo.dirs : \E i \in 1..Len(d) : d[i] \in SKIP_DIRS}

\* C19: in the returned graph no excluded directory has a node, and no file
\* of an excluded directory has a node or a symbol node.
C19_NothingFromExcludedDirs ==
    Done => \A d \in ExcludedDirs :
              /\ PathKey(d) \notin Keys
              /\ \A f \in DOMAIN repo.files :
                    Front(f) = d
                      => \A k \in Keys :
                            /\ k # PathKey(f)
                            /\ ~StartsWith(k, PathKey(f) \o <<":">>)

\* a build is over whose repository has a source file in a directory below
\* an excluded one, beside a file that was scanned
C19_Witness ==
    /\ Done
    /\ \E f \in DOMAIN repo.files :
          /\ IsPy(f)
          /\ Front(f) \in ExcludedDirs
          /\ Last(Front(f)) \notin SKIP_DIRS
    /\ \E k \in Keys : G.nodes[k].type = NODE_TYPE_FILE

\* what the database holds under repository identifier rid
StoredUnder(d, rid) ==
    [nodes |-> [k \in {x \in DOMAIN d.nodes : d.nodes[x].repo_id = rid} |->
                   d.nodes[k]],
     rels |-> {r \in d.rels : MatchNode(d, r.src, rid) /\ MatchNode(d, r.dst, rid)}]

\* C20: a push under one repository identifier leaves the nodes and the
\* relationships stored under every other identifier as they were.
C20_PushKeepsOtherRepos ==
    [][ \A graph \in PushGraphs, pushed \in RepoIds, clear_first \in BOOLEAN :
           push_graph_to_neo4j(graph, pushed, clear_first)
             => \A other \in RepoIds \ {pushed} :
                   StoredUnder(db', other) = StoredUnder(db, other)
      ]_vars

\* the files the walk recognises: source files and generic text files
Recognised(f) == IsPy(f) \/ IsGeneric(Last(f))

\* C24: a directory that holds at least one recognised file is confirmed
\* non-empty and is never deleted: it is a node of the returned graph.
C24_ConfirmedDirectoriesStay ==
    Done => \A f \in DOMAIN repo.files :
              (/\ Recognised(f)
               /\ Front(f) # <<>>
               /\ Front(f) \notin ExcludedDirs)
                => PathKey(Front(f)) \in Keys

\* the qualified key of declaration i of the file with key fk
QualifiedKey(fk, t, i) == fk \o <<":">> \o QualName(t, i)

\* C25: an inherits or invokes edge, when it is added, leaves the node of
\* the class that lists the base, or of the function that holds the call,
\* under its qualified key "<file>:<dotted name>".
C25_RefEdgesLeaveQualifiedNode ==
    [][ (pc = "refs" /\ AddsRefEdge)
          => LET item == Head(work)
                 src == QualifiedKey(item.file, ContentOf(item.file).ast,
                                     item.owner)
                 e == [src |-> src, dst |-> item.dst, type |-> item.type]
             IN  CopiesIn(e, G'.edges) > CopiesIn(e, G.edges)
      ]_vars

\* the functions and methods of tree t, constructors left aside
FunctionsOf(t) ==
    {i \in 1..Len(t) :
        /\ t[i].kind \in {"FunctionDef", "AsyncFunctionDef"}
        /\ ~IsConstructor(t, i)}

\* the call sites anywhere below node i whose callee has a simple name
CallSitesIn(t, i) ==
    {c \in Range(AstWalk(t, i)) :
        t[c].kind = "Call" /\ SimpleName(t[c].exprs[1]) # <<>>}

\* C27: in the returned graph, for every function or method F and every
\* call site in its body with callee name N, the invokes edge from F's node
\* to "<file>:N" is there exactly when step 1 created a node "<file>:N".
C27_InvokesMatchSimpleName ==
    Done => \A f \in ParsedPy :
              LET t == repo.files[f].ast
                  fk == PathKey(f)
              IN  \A i \in FunctionsOf(t) : \A c \in CallSitesIn(t, i) :
                     LET target == fk \o <<":">> \o SimpleName(t[c].exprs[1])
                     IN  HasEdge(QualifiedKey(fk, t, i), target,
                                 EDGE_TYPE_INVOKES)
                           <=> target \in DeclaredSymbolKeys

\* tree t without the nodes of D (a set closed under descendants), the
\* parents renumbered
Prune(t, D) ==
    LET keep == SelectSeq([j \in 1..Len(t) |-> j], LAMBDA j : j \notin D)
        newIndex(j) == Cardinality({x \in 1..j : x \notin D})
    IN  [n \in 1..Len(keep) |->
            [t[keep[n]] EXCEPT !.parent = IF @ = 0 THEN 0 ELSE newIndex(@)]]

\* the symbol keys step 1 creates for a file with key fk and tree t
SymbolKeysFor(fk, t) ==
    {SymbolNid(fk, _analyze_file(Tree(t))[m].name) :
        m \in 1..Len(_analyze_file(Tree(t)))}

\* C28: when a file declares one dotted name several times, the build
\* returns a graph, the node of that key carries the kind and the span of
\* the last declaration, and the other nodes are those of the build of the
\* file without the earlier declarations.
C28_LastDeclarationWins ==
    Done => \A f \in ParsedPy :
              LET t == repo.files[f].ast
                  metas == _analyze_file(repo.files[f])
                  fk == PathKey(f)
              IN  \A m2 \in 1..Len(metas) :
                     LET earlier == {m \in 1..(m2 - 1) :
                                        metas[m].name = metas[m2].name}
                         later == {m \in (m2 + 1)..Len(metas) :
                                      metas[m].name = metas[m2].name}
                         nid == SymbolNid(fk, metas[m2].name)
                         D == UNION {Range(AstWalk(t, metas[m].src)) :
                                        m \in earlier}
                     IN  (earlier # {} /\ later = {})
                           => /\ nid \in Keys
                              /\ G.nodes[nid].type = metas[m2].type
                              /\ G.nodes[nid].src = metas[m2].src
                              /\ SymbolKeysOf(fk) \ {nid}
                                   = SymbolKeysFor(fk, Prune(t, D)) \ {nid}

\* C29: exclusion looks at the path below the repository root only: in the
\* returned graph every recognised file whose directory has no excluded
\* name on its path below the root has its node, wherever the repository
\* lies.
C29_ExclusionIgnoresLocation ==
    Done => \A f \in DOMAIN repo.files :
              (Recognised(f) /\ Front(f) \notin ExcludedDirs)
                => PathKey(f) \in Keys

\* the graph as step 1 left it, read off the returned graph: steps 2 and 3
\* add the edges of the three reference types and nodes without a kind
WalkGraph ==
    LET kept == {k \in Keys : G.nodes[k].type \in NodeKinds}
        edges == {e \in DOMAIN G.edges : e.type = EDGE_TYPE_CONTAINS}
    IN  [nodes |-> [k \in kept |-> G.nodes[k]],
         edges |-> [e \in edges |-> G.edges[e]]]

\* steps 2 and 3 run on g in the order of the code, and in the other order
ImportsThenRefs(g) ==
    FoldRefs(FoldImports(g, ImportItems(file_nodes)), RefItems(file_nodes))

RefsThenImports(g) ==
    FoldImports(FoldRefs(g, RefItems(file_nodes)), ImportItems(file_nodes))

\* C26: import resolution and reference resolution commute: the returned
\* graph has the nodes and the edges that reference resolution followed by
\* import resolution gives on the graph of step 1.
C26_ImportsAndRefsCommute ==
    Done => /\ DOMAIN G.nodes = DOMAIN RefsThenImports(WalkGraph).nodes
            /\ G.edges = RefsThenImports(WalkGraph).edges

\* the returned graph is the one the code's own order gives on WalkGraph
WalkGraphIsStepOne == Done => G = ImportsThenRefs(WalkGraph)

\* ------------------------------------------------------------------------
\* annotate_graph_async: the summaries
\* ------------------------------------------------------------------------
\* valid_nodes[:10]: only the first ten nodes get a task
ANNOTATE_LIMIT == 10

SUMMARY_TEXT == "text"
SUMMARY_FAILED == "Summary generation failed."

\* the kinds annotate_node_safe builds a context for; any other returns early
SummarisedKinds ==
    {NODE_TYPE_FUNCTION, NODE_TYPE_CLASS, NODE_TYPE_FILE, NODE_TYPE_GENERIC,
     NODE_TYPE_DIRECTORY}

\* the nodes whose attributes hold a "type"
valid_nodes == {k \in Keys : G.nodes[k].type # NO_TYPE}

\* the slices valid_nodes[:10] can be: G.nodes lists the keys in the order
\* of their insertion, which the walk's listing order decides
FirstNodes ==
    IF Cardinality(valid_nodes) <= ANNOTATE_LIMIT THEN {valid_nodes}
    ELSE {S \in SUBSET valid_nodes : Cardinality(S) = ANNOTATE_LIMIT}

RECURSIVE Listed(_)
Listed(S) ==
    IF S = {} THEN <<>>
    ELSE LET k == CHOOSE x \in S : TRUE IN <<k>> \o Listed(S \ {k})

\* the tasks are made; build_graph has returned G
AnnotateStart ==
    /\ pc = "done"
    /\ pc' = "annotate"
    /\ \E first \in FirstNodes : work' = Listed(first)
    /\ UNCHANGED <<repo, G, file_nodes, dir_stack, dir_included, walk_todo,
                   db, appvars>>

\* one task of annotate_node_safe runs to its end: the request gives a text
\* or raises, and either way G.nodes[nid]["summary"] is assigned.  The tasks
\* write one attribute each, of their own node, so their order is immaterial.
AnnotateNode ==
    /\ pc = "annotate"
    /\ work # <<>>
    /\ LET nid == Head(work)
       IN  IF G.nodes[nid].type \in SummarisedKinds
           THEN \E ok \in BOOLEAN :
                   summary' = [summary EXCEPT !.nodes =
                                  (nid :> IF ok THEN SUMMARY_TEXT
                                          ELSE SUMMARY_FAILED) @@ @]
           ELSE UNCHANGED summary
    /\ work' = Tail(work)
    /\ UNCHANGED <<repo, pc, G, file_nodes, dir_stack, dir_included,
                   walk_todo, db, pickles, vectors, response>>

\* the loop over G.edges(data=True) with add_edge in place of the assignment
\* to the attribute dict
AnnotateEdges_by_add_edge ==
    /\ pc = "annotate"
    /\ work = <<>>
    /\ pc' = "annotated"
    /\ G' = IF DOMAIN G.edges = {} THEN G
            ELSE LET e == CHOOSE x \in DOMAIN G.edges : TRUE
                 IN  add_edge(G, e.src, e.dst, NO_TYPE)
    /\ summary' = [summary EXCEPT !.edges = DOMAIN G.edges]
    /\ UNCHANGED <<repo, file_nodes, dir_stack, dir_included, walk_todo,
                   work, db, pickles, vectors, response>>

\* gather has returned; every edge's attribute dict gets a summary
AnnotateEdges ==
    /\ pc = "annotate"
    /\ work = <<>>
    /\ pc' = "annotated"
    /\ summary' = [summary EXCEPT !.edges = DOMAIN G.edges]
    /\ UNCHANGED <<repo, G, file_nodes, dir_stack, dir_included, walk_todo,
                   work, db, pickles, vectors, response>>

MaxChain == 4

\* n classes, each nested in the one before and derived from it
Chain(n) ==
    [i \in 1..n |->
        Node("ClassDef", ID_A, i - 1,
             IF i = 1 THEN <<>> ELSE <<Expr("Name", ID_A)>>)]

AnnotateRepos(maxChain) ==
    {[path |-> REPO_PATH, dirs |-> {<<>>},
      files |-> (<<F_a>> :> Tree(Chain(i) \o <<ImportNode(<<M_b>>)>>))
                @@ other] :
        i \in 0..maxChain,
        other \in { [f \in {} |-> Data],
                    <<F_txt>> :> Data,
                    <<F_b>> :> Tree(Chain(3)) }}

InitAnnotate == InitOn(AnnotateRepos(MaxChain))

NextAnnotate ==
    \/ ReadmeStep
    \/ WalkDir
    \/ ResolveImport
    \/ ResolveRef
    \/ AnnotateStart
    \/ AnnotateNode
    \/ AnnotateEdges

SpecAnnotate == InitAnnotate /\ [][NextAnnotate]_vars

Annotated == pc = "annotated"

EdgeKinds(g) == DOMAIN g.edges

\* C21: annotate_graph_async changes only attributes: no step of it, whatever
\* the summary requests give, changes the set of node keys or the set of
\* (source, target, kind) edges.
C21_AnnotationKeepsKeysAndEdges ==
    [][ (pc = "done" \/ pc = "annotate") =>
            (DOMAIN G'.nodes = DOMAIN G.nodes /\ EdgeKinds(G') = EdgeKinds(G))
      ]_vars

\* an annotated graph with an edge, one summary generated and one failed
C21_Witness ==
    /\ Annotated
    /\ EdgeKinds(G) # {}
    /\ summary.edges = EdgeKinds(G)
    /\ \E k \in DOMAIN summary.nodes : summary.nodes[k] = SUMMARY_TEXT
    /\ \E k \in DOMAIN summary.nodes : summary.nodes[k] = SUMMARY_FAILED

\* C22: after annotate_graph_async every node of kind directory, file,
\* generic_file, class or function has a summary attribute, the generated
\* text or the failure placeholder.
C22_EveryNodeSummarised ==
    Annotated =>
        \A k \in Keys :
            G.nodes[k].type \in SummarisedKinds =>
                /\ k \in DOMAIN summary.nodes
                /\ summary.nodes[k] \in {SUMMARY_TEXT, SUMMARY_FAILED}

\* ------------------------------------------------------------------------
\* Neo4jClient.query_neo4j_neighbors
\* ------------------------------------------------------------------------
\* a column of a record that OPTIONAL MATCH left empty
NULL == [src |-> <<>>, dst |-> <<>>, type |-> "null"]

\* `if include_node_types and ntype not in include_node_types: continue`
Passes(d, id, include_node_types) ==
    include_node_types = {} \/ d.nodes[id].type \in include_node_types

NoResults == [nodes |-> [k \in {} |-> ""], rels |-> {}]

\* `if nid not in results: results[nid] = _make_node_entry(node)`
AddEntry(R, d, id) ==
    IF id \in DOMAIN R.nodes THEN R
    ELSE [R EXCEPT !.nodes = (id :> d.nodes[id].type) @@ @]

\* results[src]["relationships"].append({"target": dst, "type": rtype}),
\* once for each edge_key
AddRel(R, src, dst, rtype) ==
    [R EXCEPT !.rels = @ \cup {[src |-> src, dst |-> dst, type |-> rtype]}]

\* the edge is listed whatever became of its endpoints
KeepEdge_unchecked(R, src, dst) == TRUE

\* `if src in results and dst in results`
KeepEdge(R, src, dst) == src \in DOMAIN R.nodes /\ dst \in DOMAIN R.nodes

\* the relationships a path can take next from the node `at`
Hops(d, at, directed) ==
    {[rel |-> r, to |-> r.dst] : r \in {x \in d.rels : x.src = at}}
    \cup (IF directed THEN {}
          ELSE {[rel |-> r, to |-> r.src] : r \in {x \in d.rels : x.dst = at}})

\* the paths that extend a path of P by 1..k relationships; a path takes no
\* relationship twice
RECURSIVE Longer(_, _, _, _)
Longer(d, P, k, directed) ==
    IF k = 0 \/ P = {} THEN {}
    ELSE LET next ==
                UNION { {[nodes |-> Append(p.nodes, h.to),
                          rels |-> Append(p.rels, h.rel)] :
                            h \in {x \in Hops(d, p.nodes[Len(p.nodes)], directed) :
                                      \A i \in 1..Len(p.rels) : p.rels[i] # x.rel}} :
                        p \in P }
         IN  next \cup Longer(d, next, k - 1, directed)

\* MATCH path = (seed:CodeNode {id, repo_id})-[*1..depth]-(x)
\* WHERE ALL(n IN nodes(path) WHERE n.repo_id = $repo_id)
\*   AND ALL(e IN relationships(path) WHERE e.type IN types)
MatchPaths(d, seed, repo_id, depth, directed, types) ==
    IF ~MatchNode(d, seed, repo_id) THEN {}
    ELSE {p \in Longer(d, {[nodes |-> <<seed>>, rels |-> <<>>]}, depth, directed) :
             /\ \A i \in 1..Len(p.nodes) : d.nodes[p.nodes[i]].repo_id = repo_id
             /\ \A i \in 1..Len(p.rels) : p.rels[i].type \in types}

\* one record of a path query: the loop over path.nodes, then the loop over
\* path.relationships
PathRecord(R, d, p, kinds, listed, include_node_types) ==
    LET kept == {p.nodes[i] : i \in 1..Len(p.nodes)}
        ids == {id \in kept : /\ d.nodes[id].type \in kinds
                              /\ Passes(d, id, include_node_types)}
        R1 == [R EXCEPT !.nodes =
                  [id \in DOMAIN R.nodes \cup ids |->
                      IF id \in DOMAIN R.nodes THEN R.nodes[id]
                      ELSE d.nodes[id].type]]
        rs == {p.rels[i] : i \in 1..Len(p.rels)}
    IN  [R1 EXCEPT !.rels =
            @ \cup {r \in rs : r.type \in listed /\ KeepEdge(R1, r.src, r.dst)}]

RECURSIVE OverPaths(_, _, _, _, _, _)
OverPaths(R, d, ps, kinds, listed, include_node_types) ==
    IF ps = <<>> THEN R
    ELSE OverPaths(PathRecord(R, d, Head(ps), kinds, listed, include_node_types),
                   d, Tail(ps), kinds, listed, include_node_types)

\* `for seed in node_ids: for rec in sess.run(cypher, ...)` of a path query
RECURSIVE PathQuery(_, _, _, _, _, _, _, _, _, _)
PathQuery(R, d, node_ids, repo_id, depth, directed, types, kinds, listed, inc) ==
    IF node_ids = <<>> THEN R
    ELSE PathQuery(OverPaths(R, d,
                             Listed(MatchPaths(d, Head(node_ids), repo_id,
                                               depth, directed, types)),
                             kinds, listed, inc),
                   d, Tail(node_ids), repo_id, depth, directed, types, kinds,
                   listed, inc)

\* the records of the invokes_only statement for one seed
InvokesRecords(d, seed, repo_id) ==
    IF ~MatchNode(d, seed, repo_id) THEN {}
    ELSE LET out == {r \in d.rels : r.src = seed /\ r.type = EDGE_TYPE_INVOKES}
             into(r1) ==
                {r \in d.rels :
                    /\ r.dst = seed
                    /\ r.type = EDGE_TYPE_INVOKES
                    /\ \/ r1 # NULL /\ d.nodes[r1.dst].repo_id = repo_id
                       \/ d.nodes[r.src].repo_id = repo_id}
         IN  UNION { {[n |-> seed, r1 |-> r1, r2 |-> r2] :
                         r2 \in IF into(r1) = {} THEN {NULL} ELSE into(r1)} :
                     r1 \in IF out = {} THEN {NULL} ELSE out }

\* the body of the loop over the records of invokes_only
InvokesRecord(R, d, rec, include_node_types, include_incoming) ==
    IF ~Passes(d, rec.n, include_node_types) THEN R
    ELSE LET R1 == AddEntry(R, d, rec.n)
             R2 == IF rec.r1 # NULL /\ Passes(d, rec.r1.dst, include_node_types)
                   THEN AddRel(AddEntry(R1, d, rec.r1.dst),
                               rec.n, rec.r1.dst, EDGE_TYPE_INVOKES)
                   ELSE R1
         IN  IF /\ include_incoming
                /\ rec.r2 # NULL
                /\ Passes(d, rec.r2.src, include_node_types)
             THEN AddRel(AddEntry(R2, d, rec.r2.src),
                         rec.r2.src, rec.n, EDGE_TYPE_INVOKES)
             ELSE R2

\* the records of the shallow_contains statement for one seed
ContainsRecords(d, seed, repo_id) ==
    IF ~MatchNode(d, seed, repo_id) THEN {}
    ELSE LET into == {r \in d.rels : /\ r.dst = seed
                                     /\ r.type = EDGE_TYPE_CONTAINS
                                     /\ d.nodes[r.src].repo_id = repo_id}
         IN  {[n |-> seed, r |-> r] : r \in IF into = {} THEN {NULL} ELSE into}

\* the body of the loop over the records of shallow_contains
ContainsRecord(R, d, rec, include_node_types, include_outgoing) ==
    IF ~Passes(d, rec.n, include_node_types) THEN R
    ELSE LET R1 == AddEntry(R, d, rec.n)
         IN  IF /\ include_outgoing
                /\ rec.r # NULL
                /\ Passes(d, rec.r.src, include_node_types)
             THEN AddRel(AddEntry(R1, d, rec.r.src),
                         rec.r.src, rec.n, EDGE_TYPE_CONTAINS)
             ELSE R1

RECURSIVE OverInvokes(_, _, _, _, _)
OverInvokes(R, d, recs, include_node_types, include_incoming) ==
    IF recs = <<>> THEN R
    ELSE OverInvokes(InvokesRecord(R, d, Head(recs), include_node_types,
                                   include_incoming),
                     d, Tail(recs), include_node_types, include_incoming)

RECURSIVE OverContains(_, _, _, _, _)
OverContains(R, d, recs, include_node_types, include_outgoing) ==
    IF recs = <<>> THEN R
    ELSE OverContains(ContainsRecord(R, d, Head(recs), include_node_types,
                                     include_outgoing),
                      d, Tail(recs), include_node_types, include_outgoing)

RECURSIVE InvokesQuery(_, _, _, _, _, _)
InvokesQuery(R, d, node_ids, repo_id, include_node_types, include_incoming) ==
    IF node_ids = <<>> THEN R
    ELSE InvokesQuery(OverInvokes(R, d,
                                  Listed(InvokesRecords(d, Head(node_ids), repo_id)),
                                  include_node_types, include_incoming),
                      d, Tail(node_ids), repo_id, include_node_types,
                      include_incoming)

RECURSIVE ContainsQuery(_, _, _, _, _, _)
ContainsQuery(R, d, node_ids, repo_id, include_node_types, include_outgoing) ==
    IF node_ids = <<>> THEN R
    ELSE ContainsQuery(OverContains(R, d,
                                    Listed(ContainsRecords(d, Head(node_ids), repo_id)),
                                    include_node_types, include_outgoing),
                       d, Tail(node_ids), repo_id, include_node_types,
                       include_outgoing)

\* the value of the "type" property of the relationships and of the nodes
StoredRelTypes(d) == {r.type : r \in d.rels}

StoredNodeTypes(d) == {d.nodes[k].type : k \in DOMAIN d.nodes}

\* the arguments of one call
query_neo4j_neighbors(d, q) ==
    IF q.edge_types # {}
    THEN PathQuery(NoResults, d, q.node_ids, q.repo_id, q.depth, q.directed,
                   q.edge_types, StoredNodeTypes(d), q.edge_types,
                   q.include_node_types)
    ELSE IF q.strategy = "invokes_only"
    THEN InvokesQuery(NoResults, d, q.node_ids, q.repo_id,
                      q.include_node_types, q.include_incoming)
    ELSE IF q.strategy = "shallow_contains"
    THEN ContainsQuery(NoResults, d, q.node_ids, q.repo_id,
                       q.include_node_types, q.include_outgoing)
    ELSE IF q.strategy = "file_and_function_only"
    THEN PathQuery(NoResults, d, q.node_ids, q.repo_id, q.depth, FALSE,
                   StoredRelTypes(d), {NODE_TYPE_FILE, NODE_TYPE_FUNCTION},
                   StoredRelTypes(d), q.include_node_types)
    ELSE IF q.strategy = "deep_logic_chain"
    THEN PathQuery(NoResults, d, q.node_ids, q.repo_id, q.depth, TRUE,
                   {EDGE_TYPE_INVOKES, EDGE_TYPE_INHERITS}, StoredNodeTypes(d),
                   {EDGE_TYPE_INVOKES, EDGE_TYPE_INHERITS}, q.include_node_types)
    ELSE IF q.strategy = "class_hierarchy"
    THEN PathQuery(NoResults, d, q.node_ids, q.repo_id, q.depth, TRUE,
                   {EDGE_TYPE_INHERITS}, StoredNodeTypes(d),
                   {EDGE_TYPE_INHERITS}, q.include_node_types)
    ELSE PathQuery(NoResults, d, q.node_ids, q.repo_id, q.depth, FALSE,
                   StoredRelTypes(d), StoredNodeTypes(d), StoredRelTypes(d),
                   q.include_node_types)

MaxDepth == 2

\* the graph of one file with a class and a function, with some of the edges
\* build_graph can give them
K_A == F_a \o <<":">> \o ID_A
K_B == F_a \o <<":">> \o ID_B

QueryEdges ==
    { [src |-> F_a, dst |-> K_A, type |-> EDGE_TYPE_CONTAINS],
      [src |-> F_a, dst |-> K_B, type |-> EDGE_TYPE_CONTAINS],
      [src |-> K_B, dst |-> K_A, type |-> EDGE_TYPE_INVOKES],
      [src |-> K_B, dst |-> K_B, type |-> EDGE_TYPE_INVOKES],
      [src |-> K_A, dst |-> K_B, type |-> EDGE_TYPE_INHERITS] }

QueryGraph(S) ==
    [nodes |-> (F_a :> [type |-> NODE_TYPE_FILE, src |-> 0])
               @@ (K_A :> [type |-> NODE_TYPE_CLASS, src |-> 1])
               @@ (K_B :> [type |-> NODE_TYPE_FUNCTION, src |-> 2]),
     edges |-> SetToBag(S)]

\* the databases the queries run on: repository "A" pushed, and then perhaps
\* repository "B", whose graph has a node of the same id
QueryStores ==
    LET first == {Pushed(EmptyStore, QueryGraph(S), "A", FALSE) :
                     S \in SUBSET QueryEdges}
    IN  first \cup {Pushed(d, FileGraph({K_A}), "B", FALSE) : d \in first}

Strategies ==
    {"invokes_only", "shallow_contains", "file_and_function_only",
     "deep_logic_chain", "class_hierarchy", "default_bfs_all"}

Queries(maxDepth) ==
    [node_ids : {<<F_a>>, <<K_B>>, <<K_A, K_B>>},
     repo_id : {"A"},
     depth : 1..maxDepth,
     strategy : Strategies,
     edge_types : {{}, {EDGE_TYPE_INVOKES},
                   {EDGE_TYPE_CONTAINS, EDGE_TYPE_INHERITS}},
     include_node_types : {{}, {NODE_TYPE_CLASS},
                           {NODE_TYPE_FILE, NODE_TYPE_FUNCTION}},
     directed : BOOLEAN,
     include_incoming : BOOLEAN,
     include_outgoing : BOOLEAN]

\* one call of query_neo4j_neighbors; the call ends with self.close(), so a
\* client answers one query
Query ==
    /\ response = NO_RESPONSE
    /\ \E q \in Queries(MaxDepth) :
          response' = [kind |-> "neighbors", query |-> q,
                       results |-> query_neo4j_neighbors(db, q)]
    /\ UNCHANGED <<repo, pc, G, file_nodes, dir_stack, dir_included,
                   walk_todo, work, db, summary, pickles, vectors>>

InitQuery ==
    /\ repo = [path |-> REPO_PATH, dirs |-> {<<>>}, files |-> [f \in {} |-> Data]]
    /\ pc = "done"
    /\ G = EmptyGraph
    /\ file_nodes = <<>>
    /\ dir_stack = <<>>
    /\ dir_included = <<>>
    /\ walk_todo = <<>>
    /\ work = <<>>
    /\ db \in QueryStores
    /\ summary = NoSummaries
    /\ pickles = {}
    /\ vectors = {}
    /\ response = NO_RESPONSE

SpecQuery == InitQuery /\ [][Query]_vars

Answered == response.kind = "neighbors"

\* C23: whatever the strategy, the seeds and edge_types, with a non-empty
\* include_node_types every returned node has its type in include_node_types,
\* and every relationship listed under a returned node has its target among
\* the returned nodes.
C23_ResultsAreFilteredAndClosed ==
    Answered =>
        LET R == response.results
            inc == response.query.include_node_types
        IN  /\ inc # {} => \A id \in DOMAIN R.nodes : R.nodes[id] \in inc
            /\ \A r \in R.rels : /\ r.src \in DOMAIN R.nodes
                                 /\ r.dst \in DOMAIN R.nodes

\* a filtered answer that lists a relationship and has left out a node that
\* a relationship of a returned node leads to
C23_Witness ==
    /\ Answered
    /\ response.query.include_node_types # {}
    /\ response.results.rels # {}
    /\ \E r \in db.rels :
          /\ r.src \in DOMAIN response.results.nodes
          /\ r.dst \notin DOMAIN response.results.nodes
          /\ db.nodes[r.dst].repo_id = response.query.repo_id
          /\ db.nodes[r.dst].type \notin response.query.include_node_types

\* ------------------------------------------------------------------------
\* upload_repo
\* ------------------------------------------------------------------------
GIT_SUFFIX == <<".", "g", "i", "t">>

\* the characters of [A-Za-z0-9_\-]
SafeChars ==
    {"a", "b", "c", "d", "e", "f", "g", "h", "i", "j", "k", "l", "m", "n",
     "o", "p", "q", "r", "s", "t", "u", "v", "w", "x", "y", "z",
     "A", "B", "C", "D", "E", "F", "G", "H", "I", "J", "K", "L", "M", "N",
     "O", "P", "Q", "R", "S", "T", "U", "V", "W", "X", "Y", "Z",
     "0", "1", "2", "3", "4", "5", "6", "7", "8", "9", "_", "-"}

\* sanitize_repo_url: the last segment of the URL, without a trailing
\* ".git", every other character replaced by "_"
sanitize_repo_url(repo_url) ==
    LET name == Last(Split(RStrip(repo_url, SEP), SEP))
        bare == IF EndsWith(name, GIT_SUFFIX)
                THEN SubSeq(name, 1, Len(name) - Len(GIT_SUFFIX))
                ELSE name
    IN  [i \in 1..Len(bare) |-> IF bare[i] \in SafeChars THEN bare[i] ELSE "_"]

ALREADY_INDEXED == "Repo already indexed and stored."
NOW_INDEXED == "Repo indexed and stored."

\* the steps of upload_repo that reach outside the process and can raise
UploadSteps == {"clone", "build", "push", "embed", "store"}

\* the repository URLs of the requests: two owners with a repository of the
\* same name, and a third repository
URL_x_r == <<"h", "/", "x", "/", "r", ".", "g", "i", "t">>
URL_y_r == <<"h", "/", "y", "/", "r">>
URL_x_q == <<"h", "/", "x", "/", "q", ".", "s", "/">>

Urls == {URL_x_r, URL_y_r, URL_x_q}

\* the graph build_graph and annotate_graph_async give for a repository
UrlGraph(repo_url) ==
    IF repo_url = URL_x_r THEN FileGraph({F_a})
    ELSE IF repo_url = URL_y_r THEN FileGraph({F_a, F_b})
    ELSE FileGraph({F_setup})

\* one request to /upload-repo, from its first line to its response; `fails`
\* is the step that raises, "none" when every step succeeds
upload_repo(repo_url, fails) ==
    LET safe_repo_id == sanitize_repo_url(repo_url)
    IN  IF safe_repo_id \in pickles
        THEN /\ response' = [kind |-> "upload", repo_url |-> repo_url,
                             status |-> 200, message |-> ALREADY_INDEXED]
             /\ UNCHANGED <<db, pickles, vectors>>
        ELSE /\ pickles' = IF fails \in {"clone", "build"} THEN pickles
                           ELSE pickles \cup {safe_repo_id}
             /\ db' = IF fails \in {"clone", "build", "push"} THEN db
                      ELSE Pushed(db, UrlGraph(repo_url), repo_url, FALSE)
             /\ vectors' = IF fails = "none" THEN vectors \cup {repo_url}
                           ELSE vectors
             /\ response' = IF fails = "none"
                            THEN [kind |-> "upload", repo_url |-> repo_url,
                                  status |-> 200, message |-> NOW_INDEXED]
                            ELSE [kind |-> "upload", repo_url |-> repo_url,
                                  status |-> 500, message |-> fails]

Upload ==
    /\ \E repo_url \in Urls, fails \in UploadSteps \cup {"none"} :
          upload_repo(repo_url, fails)
    /\ UNCHANGED <<repo, pc, G, file_nodes, dir_stack, dir_included,
                   walk_todo, work, summary>>

\* the service after start-up: no pickle, nothing stored
InitUpload ==
    InitOn({[path |-> REPO_PATH, dirs |-> {<<>>}, files |-> [f \in {} |-> Data]]})

SpecUpload == InitUpload /\ [][Upload]_vars

\* C30: upload_repo answers "Repo already indexed and stored." for a URL only
\* if an earlier request for that same URL completed every step, the last of
\* which puts the URL's embeddings into the vector store.
C30_AlreadyIndexedMeansIndexed ==
    (response.kind = "upload" /\ response.message = ALREADY_INDEXED) =>
        response.repo_url \in vectors

====
